---- MODULE Spec2Model ----
(***************************************************************************)
(* Plant disease detection: the training loop (train.py main), the split   *)
(* and loader builder and the label encoder (data/dataset.py), the         *)
(* evaluation runner (evaluate.py), the metric calculator                  *)
(* (utils/metrics.py) and the detection page (app.py), as state machines.  *)
(*                                                                         *)
(* The specifications share the variables; each one drives its own group   *)
(* and leaves the others at their idle values:                             *)
(*   Spec / SpecFair  one run of train.py main                             *)
(*   SpecSizes        the split sizes computed by get_datasets             *)
(*   SpecSplit        get_datasets + get_dataloaders and loader passes     *)
(*   SpecLabel        PlantDataset.__getitem__ label encoding              *)
(*   SpecEval         one run of evaluate.py                               *)
(*   SpecInference    evaluate.py and the detection page of app.py         *)
(*   SpecMetrics      calculate_metrics on one batch                       *)
(*   SpecRoundTrip    a training run and evaluate on its file beside it    *)
(*   SpecServe        the detection page with checkpoint files changing    *)
(*   SpecTwoSplits    get_dataloaders in a training and an evaluation run  *)
(*   SpecRerun        a training run that finds an earlier run's file      *)
(***************************************************************************)
EXTENDS Integers, Sequences, FiniteSets, TLC

\* ------------------------------------------------------------------ bounds
MaxEpochs == 4
MaxRows == 4
MaxManifest == 100
MaxPasses == 2
MaxBatch == 3
MaxClicks == 2
MaxBatchRows == 2

\* ------------------------------------------------------- program constants
\* split_ratios are written in tenths: (0.8, 0.1, 0.1) is <<8, 1, 1>>.
RatioDen == 10
\* The four class columns of the manifest, in PlantDataset.classes order.
NumClasses == 4
\* float32 has a 24-bit significand: integers up to 2^24 are exact.
F32Exact == 16777216

Archs == {"vit", "swin"}
NoFile == << >>

VARIABLES
  \* ---- train.py main
  pc,          \* phase of the run
  arg_epochs,  \* --epochs
  dry_run,     \* --dry_run
  arch,        \* --model
  model_ok,    \* whether the model factory returned a model (not None)
  epochs,      \* local `epochs`
  epoch,       \* loop index, 0-based
  params,      \* number of optimizer steps the parameters went through
  best_acc,    \* best validation accuracy so far, in tenths
  val_acc,     \* this epoch's validation accuracy, in tenths
  accs,        \* validation accuracies of the epochs so far
  ckpt,        \* checkpoint file per architecture: NoFile or <<run, params>>
  writes,      \* the epochs (1-based) at whose end torch.save ran
  n_train,     \* calls of train_epoch that returned
  n_val,       \* calls of validate that returned
  n_sched,     \* calls of scheduler.step(), a raising one included
  optim,       \* whether the optimizer and the scheduler have been created
  n_rows,      \* rows of the manifest under --data_dir
  steps,       \* calls of optimizer.step()
  val_params,  \* the parameters the last validate measured
  prev_best,   \* best accuracy of the earlier run whose file is found (0: none)
  \* ---- data/dataset.py
  d_pc,        \* position in get_datasets / get_dataloaders / __getitem__
  d_n,         \* len(full_dataset)
  d_ratios,    \* split_ratios in tenths
  d_sizes,     \* <<train_size, val_size, test_size>>
  d_perm,      \* the permutation random_split drew
  d_subsets,   \* <<train, val, test>> index sequences
  d_passes,    \* number of loader passes made so far
  d_pass,      \* the last pass: the loader and the manifest rows it yielded
  d_row,       \* class columns of the manifest row fetched
  d_label,     \* label returned by __getitem__
  d_env,       \* which of train.csv, images/ and the image file exist
  d_err,       \* the error get_datasets raised, "none" if none
  d_item,      \* what TransformSubset.__getitem__ gave: a pair or an error
  d_bs,        \* batch_size
  \* ---- evaluate.py
  e_pc,        \* position in evaluate
  e_in,        \* the environment evaluate runs in
  e_weights,   \* "none" | "random" | "loaded"
  e_out,       \* what evaluate printed and wrote, in order
  e_params,    \* state_dict of evaluate's model, << >> before it is built
  e_perm,      \* the permutation random_split drew in evaluate
  e_subsets,   \* evaluate's <<train, val, test>> datasets
  \* ---- app.py
  a_files,     \* checkpoints/best_model_{arch}.pth: NoFile or <<what it holds>>
  a_cache,     \* st.cache_resource of load_model, per model_name
  a_reads,     \* how many times each checkpoint file has been read
  a_out,       \* what the last click on the detection page showed
  a_clicks,    \* clicks handled so far
  \* ---- utils/metrics.py
  m_pc,        \* position in calculate_metrics
  m_true,      \* y_true: the targets of the batch
  m_pred,      \* y_pred: the logits of the batch, one row per example
  m_out        \* the metrics returned

trainVars == <<pc, arg_epochs, dry_run, arch, model_ok, epochs, epoch, params,
               best_acc, val_acc, accs, ckpt, writes, n_train, n_val, n_sched,
               optim, n_rows, steps, val_params, prev_best>>
dataVars == <<d_pc, d_n, d_ratios, d_sizes, d_perm, d_subsets, d_passes,
              d_pass, d_row, d_label, d_env, d_err, d_item, d_bs>>
evalVars == <<e_pc, e_in, e_weights, e_out, e_params, e_perm, e_subsets>>
appVars == <<a_files, a_cache, a_reads, a_out, a_clicks>>
metricVars == <<m_pc, m_true, m_pred, m_out>>
vars == <<trainVars, dataVars, evalVars, appVars, metricVars>>

\* ------------------------------------------------------------ idle values
TrainIdle ==
  /\ pc = "Idle" /\ arg_epochs = 0 /\ dry_run = FALSE /\ arch = "vit"
  /\ model_ok = TRUE /\ epochs = 0 /\ epoch = 0 /\ params = 0
  /\ best_acc = 0 /\ val_acc = 0 /\ accs = << >>
  /\ ckpt = [a \in Archs |-> NoFile] /\ writes = << >>
  /\ n_train = 0 /\ n_val = 0 /\ n_sched = 0 /\ optim = FALSE
  /\ n_rows = 0 /\ steps = 0 /\ val_params = 0 /\ prev_best = 0

\* What __getitem__ has given before it is called.
NoItem == [status |-> "none", image |-> "none", label |-> 0]

DataNewIdle ==
  /\ d_env = [csv |-> TRUE, img |-> TRUE, image |-> TRUE]
  /\ d_err = "none" /\ d_item = NoItem /\ d_bs = 1

DataIdle ==
  /\ d_pc = "Idle" /\ d_n = 0 /\ d_ratios = <<0, 0, 0>> /\ d_sizes = <<0, 0, 0>>
  /\ d_perm = << >> /\ d_subsets = << >>
  /\ d_passes = 0 /\ d_pass = [loader |-> "none", order |-> << >>, batches |-> << >>]
  /\ d_row = << >> /\ d_label = 0
  /\ DataNewIdle

EvalIdle ==
  /\ e_pc = "Idle" /\ e_in = [ckpt |-> << >>, content |-> << >>] /\ e_weights = "none" /\ e_out = << >>
  /\ e_params = NoFile /\ e_perm = << >> /\ e_subsets = << >>

\* The cache of load_model before any call, and the page before any run.
NotCached == [state |-> "unset", from |-> NoFile]
NoRun == [choice |-> "none", shown |-> << >>, run |-> "none"]

AppIdle ==
  /\ a_files = [a \in Archs |-> NoFile] /\ a_cache = [a \in Archs |-> NotCached]
  /\ a_reads = [a \in Archs |-> 0] /\ a_out = NoRun /\ a_clicks = 0

MetricIdle ==
  /\ m_pc = "Idle" /\ m_true = << >> /\ m_pred = << >> /\ m_out = << >>

\* ============================================================= split sizes
\* split_ratios are binary64 numbers. The double nearest to k/10 is
\* k/10 + DoubleErr(k) / (10 * 2^DoubleExp(k)).
DoubleErr(k) == <<0, 2, 2, -2, 2, 0, -2, -2, 2, 2, 0>>[k + 1]
DoubleExp(k) == <<0, 55, 54, 54, 53, 1, 53, 52, 52, 53, 0>>[k + 1]

RECURSIVE Pow2(_)
Pow2(e) == IF e = 0 THEN 1 ELSE 2 * Pow2(e - 1)

RECURSIVE BinadeOf(_, _)
\* The least p >= from with q <= 2^p: the doubles just below q are 2^(p-53) apart.
BinadeOf(q, from) == IF q <= Pow2(from) THEN from ELSE BinadeOf(q, from + 1)

\* int(split_ratios[i] * len(full_dataset)) for the ratio k/10: the binary64
\* product, rounded to nearest-even, then truncated. When k*n/10 is not an
\* integer the product stays between the same two integers. When it is an
\* integer q and the double of k/10 lies below k/10, the exact product lies
\* n*|err| / (10 * 2^exp) below q and rounds to q unless that is more than half
\* the spacing 2^(p-53) of the doubles below q; then the result is q - 1.
IntOfProduct(k, n) ==
  LET q == (k * n) \div RatioDen
      err == DoubleErr(k)
  IN IF (k * n) % RatioDen # 0 \/ err >= 0 \/ q = 0 THEN q
     ELSE IF n * (-err) * Pow2(54 - DoubleExp(k)) > RatioDen * Pow2(BinadeOf(q, 0))
            THEN q - 1
            ELSE q

\* train_size = int(split_ratios[0] * len(full_dataset))
TrainSize(n, r) == IntOfProduct(r[1], n)
\* val_size = int(split_ratios[1] * len(full_dataset))
ValSize(n, r) == IntOfProduct(r[2], n)
\* A split that sized the test subset by its ratio, like the other two.
TestSizeByRatio(n, r) == IntOfProduct(r[3], n)
\* test_size = len(full_dataset) - train_size - val_size
TestSize(n, r) == n - TrainSize(n, r) - ValSize(n, r)

SplitSizes(n, r) == <<TrainSize(n, r), ValSize(n, r), TestSize(n, r)>>

\* get_datasets(data_dir): split_ratios=(0.8, 0.1, 0.1)
DefaultRatios == <<8, 1, 1>>

\* --batch_size, default
DefaultBatchSize == 32

\* Manifest sizes of a training run: one row (no train row), nine (no
\* validation row), ten (one validation row), fifty (two train batches, five
\* validation rows), a hundred (three train batches, ten validation rows).
RunRows == {1, 9, 10, 50, 100}

\* len(train_loader.dataset), len(val_loader.dataset)
TrainLen(n) == TrainSize(n, DefaultRatios)
ValLen(n) == ValSize(n, DefaultRatios)

\* len(train_loader): drop_last is False, the last batch may be short.
TrainBatches(n) == (TrainLen(n) + DefaultBatchSize - 1) \div DefaultBatchSize

\* The parameters after k train passes that returned: one optimizer step per
\* train batch.
ParamsAfter(k, n) == k * TrainBatches(n)

\* The numbers of validation rows one epoch's model may predict right.
RightCounts(n) == 0..ValLen(n)

\* val_metrics['accuracy']: accuracy_score is right / len(y_true); kept in
\* tenths, which is exact for the validation splits of RunRows (1, 5 and 10
\* rows).
AccOf(right, total) == (10 * right) \div total

\* line 110: CosineAnnealingLR(optimizer, T_max=args.epochs); line 125: the
\* step of the schedule takes a remainder modulo 2 * T_max.
SchedulerStepDivides(tmax) == 2 * tmax # 0

\* =================================================================== train
\* range(epochs): the number of iterations of `for epoch in range(epochs)`.
RangeLen(n) == IF n > 0 THEN n ELSE 0

\* epochs = 1 if args.dry_run else args.epochs
EpochsFor(dry, n) == IF dry THEN 1 ELSE n

\* if val_metrics['accuracy'] > best_acc
ImprovesOrTies(acc, best) == acc >= best
Improves(acc, best) == acc > best

\* `for epoch in range(epochs)`: whether iteration e (0-based) runs.
LoopRunsOneMore(e, n) == e <= n
LoopRuns(e, n) == e < n

\* A save path that does not depend on --model.
SavePathFixed(a) == "vit"

\* The file the run writes: best_model_{args.model}.pth
SavePath(a) == a

\* The arguments and the files a run starts from.
RunInputs ==
  /\ pc = "Init"
  /\ arg_epochs \in 0..MaxEpochs
  /\ dry_run \in BOOLEAN
  /\ arch \in Archs
  /\ model_ok \in BOOLEAN
  /\ ckpt \in [Archs -> {NoFile, <<0, 0>>}]
  /\ epochs = 0 /\ epoch = 0 /\ params = 0
  /\ best_acc = 0 /\ val_acc = 0 /\ accs = << >> /\ writes = << >>
  /\ n_train = 0 /\ n_val = 0 /\ n_sched = 0 /\ optim = FALSE
  /\ n_rows \in RunRows /\ steps = 0 /\ val_params = 0
  /\ DataIdle /\ EvalIdle /\ AppIdle /\ MetricIdle

\* A run of which nothing is recorded about earlier runs.
Init == RunInputs /\ prev_best = 0

\* main, lines 83-92: get_dataloaders raises for an empty train split
\* (dataset.py line 84) and leaves main before the model is built.
SetupDataRaises ==
  /\ pc = "Init" /\ TrainLen(n_rows) = 0
  /\ pc' = "Aborted"
  /\ UNCHANGED <<arg_epochs, dry_run, arch, model_ok, epochs, epoch, params,
                 best_acc, val_acc, accs, ckpt, writes, n_train, n_val, n_sched>>
  /\ UNCHANGED <<optim, n_rows, prev_best, steps, val_params>>
  /\ UNCHANGED <<dataVars, evalVars, appVars, metricVars>>

\* A main that goes on to the loop without a model.
SetupModelNoneContinues ==
  /\ pc = "Init" /\ TrainLen(n_rows) > 0 /\ ~model_ok
  /\ best_acc' = 0
  /\ epochs' = EpochsFor(dry_run, arg_epochs)
  /\ epoch' = 0
  /\ optim' = TRUE
  /\ UNCHANGED <<n_rows, prev_best, steps, val_params>>
  /\ pc' = IF LoopRuns(0, epochs') THEN "TrainEpoch" ELSE "Done"
  /\ UNCHANGED <<arg_epochs, dry_run, arch, model_ok, params, val_acc, accs,
                 ckpt, writes, n_train, n_val, n_sched>>
  /\ UNCHANGED <<dataVars, evalVars, appVars, metricVars>>

\* main, lines 83-103: the loaders are built, the model factory returned
\* None; main prints "Failed to initialize model. Exiting." and returns (pc
\* "Exit").
SetupModelNone ==
  /\ pc = "Init" /\ TrainLen(n_rows) > 0 /\ ~model_ok
  /\ pc' = "Exit"
  /\ UNCHANGED <<arg_epochs, dry_run, arch, model_ok, epochs, epoch, params,
                 best_acc, val_acc, accs, ckpt, writes, n_train, n_val, n_sched>>
  /\ UNCHANGED <<optim, n_rows, prev_best, steps, val_params>>
  /\ UNCHANGED <<dataVars, evalVars, appVars, metricVars>>

\* A main that starts the tracker from the best accuracy of the run that
\* wrote the file it finds.
SetupResumesBest ==
  /\ pc = "Init" /\ TrainLen(n_rows) > 0 /\ model_ok
  /\ optim' = TRUE
  /\ UNCHANGED <<n_rows, prev_best, steps, val_params>>
  /\ best_acc' = IF ckpt[SavePath(arch)] # NoFile THEN prev_best ELSE 0
  /\ epochs' = EpochsFor(dry_run, arg_epochs)
  /\ epoch' = 0
  /\ pc' = IF LoopRuns(0, epochs') THEN "TrainEpoch" ELSE "Done"
  /\ UNCHANGED <<arg_epochs, dry_run, arch, model_ok, params, val_acc, accs,
                 ckpt, writes, n_train, n_val, n_sched>>
  /\ UNCHANGED <<dataVars, evalVars, appVars, metricVars>>

\* main, lines 83-116: up to the first test of the loop; the optimizer and
\* the scheduler are created at lines 109-110.
Setup ==
  /\ pc = "Init" /\ TrainLen(n_rows) > 0 /\ model_ok
  /\ optim' = TRUE
  /\ UNCHANGED <<n_rows, prev_best, steps, val_params>>
  /\ best_acc' = 0
  /\ epochs' = EpochsFor(dry_run, arg_epochs)
  /\ epoch' = 0
  /\ pc' = IF LoopRuns(0, epochs') THEN "TrainEpoch" ELSE "Done"
  /\ UNCHANGED <<arg_epochs, dry_run, arch, model_ok, params, val_acc, accs,
                 ckpt, writes, n_train, n_val, n_sched>>
  /\ UNCHANGED <<dataVars, evalVars, appVars, metricVars>>

\* line 119: train_epoch returns; every batch took one optimizer step.
TrainEpoch ==
  /\ pc = "TrainEpoch"
  /\ params' = params + TrainBatches(n_rows)
  /\ steps' = steps + TrainBatches(n_rows)
  /\ n_train' = n_train + 1
  /\ pc' = "ValidateEpoch"
  /\ UNCHANGED <<arg_epochs, dry_run, arch, model_ok, epochs, epoch, best_acc,
                 val_acc, accs, ckpt, writes, n_val, n_sched>>
  /\ UNCHANGED <<optim, n_rows, prev_best, val_params>>
  /\ UNCHANGED <<dataVars, evalVars, appVars, metricVars>>

\* line 119: an exception inside train_epoch leaves main, after the optimizer
\* steps of the batches before it (line 27): none up to all of them (the
\* metrics of lines 37-42 come after the last).
TrainEpochRaises ==
  /\ pc = "TrainEpoch"
  /\ pc' = "Aborted"
  /\ \E k \in 0..TrainBatches(n_rows) :
       /\ params' = params + k
       /\ steps' = steps + k
  /\ UNCHANGED <<arg_epochs, dry_run, arch, model_ok, epochs, epoch,
                 best_acc, val_acc, accs, ckpt, writes, n_train, n_val, n_sched>>
  /\ UNCHANGED <<optim, n_rows, prev_best, val_params>>
  /\ UNCHANGED <<dataVars, evalVars, appVars, metricVars>>

\* A validate that takes an optimizer step like train_epoch.
ValidateEpochSteps ==
  /\ pc = "ValidateEpoch"
  /\ ValLen(n_rows) > 0
  /\ \E right \in RightCounts(n_rows) :
       /\ val_acc' = AccOf(right, ValLen(n_rows))
       /\ accs' = Append(accs, val_acc')
  /\ val_params' = params
  /\ params' = params + 1
  /\ steps' = steps + 1
  /\ n_val' = n_val + 1
  /\ pc' = "SchedulerStep"
  /\ UNCHANGED <<arg_epochs, dry_run, arch, model_ok, epochs, epoch,
                 best_acc, ckpt, writes, n_train, n_sched>>
  /\ UNCHANGED <<optim, n_rows, prev_best>>
  /\ UNCHANGED <<dataVars, evalVars, appVars, metricVars>>

\* line 122: validate returns the metrics of the current parameters (lines
\* 47-69: eval mode, no_grad, no optimizer); the accuracy is the fraction of
\* the validation rows predicted right.  It returns only for a non-empty
\* validation split: line 63 divides by len(loader.dataset).
ValidateEpoch ==
  /\ pc = "ValidateEpoch"
  /\ ValLen(n_rows) > 0
  /\ \E right \in RightCounts(n_rows) :
       /\ val_acc' = AccOf(right, ValLen(n_rows))
       /\ accs' = Append(accs, val_acc')
  /\ val_params' = params
  /\ n_val' = n_val + 1
  /\ pc' = "SchedulerStep"
  /\ UNCHANGED <<arg_epochs, dry_run, arch, model_ok, epochs, epoch, params,
                 best_acc, ckpt, writes, n_train, n_sched>>
  /\ UNCHANGED <<optim, n_rows, prev_best, steps>>
  /\ UNCHANGED <<dataVars, evalVars, appVars, metricVars>>

\* A loop that catches a failed validation and tries the epoch again.
ValidateRaisesRetries ==
  /\ pc = "ValidateEpoch"
  /\ pc' = "TrainEpoch"
  /\ UNCHANGED <<arg_epochs, dry_run, arch, model_ok, epochs, epoch, params,
                 best_acc, val_acc, accs, ckpt, writes, n_train, n_val, n_sched>>
  /\ UNCHANGED <<optim, n_rows, prev_best, steps, val_params>>
  /\ UNCHANGED <<dataVars, evalVars, appVars, metricVars>>

\* line 122: an exception inside validate leaves main: the ZeroDivisionError
\* of line 63 for an empty validation split, or any other.
ValidateRaises ==
  /\ pc = "ValidateEpoch"
  /\ pc' = "Aborted"
  /\ UNCHANGED <<arg_epochs, dry_run, arch, model_ok, epochs, epoch, params,
                 best_acc, val_acc, accs, ckpt, writes, n_train, n_val, n_sched>>
  /\ UNCHANGED <<optim, n_rows, prev_best, steps, val_params>>
  /\ UNCHANGED <<dataVars, evalVars, appVars, metricVars>>

\* line 125 as a bug would have it: the schedule steps only on an improvement.
SchedulerStepOnImprove ==
  /\ pc = "SchedulerStep"
  /\ n_sched' = IF Improves(val_acc, best_acc) THEN n_sched + 1 ELSE n_sched
  /\ pc' = "MaybeCheckpoint"
  /\ UNCHANGED <<arg_epochs, dry_run, arch, model_ok, epochs, epoch, params,
                 best_acc, val_acc, accs, ckpt, writes, n_train, n_val>>
  /\ UNCHANGED <<optim, n_rows, prev_best, steps, val_params>>
  /\ UNCHANGED <<dataVars, evalVars, appVars, metricVars>>

\* line 125: scheduler.step() with T_max = 0 (--dry_run --epochs 0) raises
\* ZeroDivisionError and leaves main before the test of line 128.
SchedulerStepRaises ==
  /\ pc = "SchedulerStep"
  /\ ~SchedulerStepDivides(arg_epochs)
  /\ n_sched' = n_sched + 1
  /\ pc' = "Aborted"
  /\ UNCHANGED <<arg_epochs, dry_run, arch, model_ok, epochs, epoch, params,
                 best_acc, val_acc, accs, ckpt, writes, n_train, n_val>>
  /\ UNCHANGED <<optim, n_rows, prev_best, steps, val_params>>
  /\ UNCHANGED <<dataVars, evalVars, appVars, metricVars>>

\* line 125: scheduler.step()
SchedulerStep ==
  /\ pc = "SchedulerStep"
  /\ SchedulerStepDivides(arg_epochs)
  /\ n_sched' = n_sched + 1
  /\ pc' = "MaybeCheckpoint"
  /\ UNCHANGED <<arg_epochs, dry_run, arch, model_ok, epochs, epoch, params,
                 best_acc, val_acc, accs, ckpt, writes, n_train, n_val>>
  /\ UNCHANGED <<optim, n_rows, prev_best, steps, val_params>>
  /\ UNCHANGED <<dataVars, evalVars, appVars, metricVars>>

\* A save on improvement that forgets to move the tracker.
MaybeCheckpointKeepsBest ==
  /\ pc = "MaybeCheckpoint"
  /\ IF Improves(val_acc, best_acc)
       THEN /\ best_acc' = best_acc
            /\ ckpt' = [ckpt EXCEPT ![SavePath(arch)] = <<1, params>>]
            /\ writes' = Append(writes, epoch + 1)
       ELSE UNCHANGED <<best_acc, ckpt, writes>>
  /\ epoch' = epoch + 1
  /\ pc' = IF LoopRuns(epoch + 1, epochs) THEN "TrainEpoch" ELSE "Done"
  /\ UNCHANGED <<arg_epochs, dry_run, arch, model_ok, epochs, params, val_acc,
                 accs, n_train, n_val, n_sched>>
  /\ UNCHANGED <<optim, n_rows, prev_best, steps, val_params>>
  /\ UNCHANGED <<dataVars, evalVars, appVars, metricVars>>

\* lines 127-134: save on a strict improvement, then the next test of the loop.
MaybeCheckpoint ==
  /\ pc = "MaybeCheckpoint"
  /\ IF Improves(val_acc, best_acc)
       THEN /\ best_acc' = val_acc
            /\ ckpt' = [ckpt EXCEPT ![SavePath(arch)] = <<1, params>>]
            /\ writes' = Append(writes, epoch + 1)
       ELSE UNCHANGED <<best_acc, ckpt, writes>>
  /\ epoch' = epoch + 1
  /\ pc' = IF LoopRuns(epoch + 1, epochs) THEN "TrainEpoch" ELSE "Done"
  /\ UNCHANGED <<arg_epochs, dry_run, arch, model_ok, epochs, params, val_acc,
                 accs, n_train, n_val, n_sched>>
  /\ UNCHANGED <<optim, n_rows, prev_best, steps, val_params>>
  /\ UNCHANGED <<dataVars, evalVars, appVars, metricVars>>

Next ==
  \/ SetupDataRaises
  \/ SetupModelNone
  \/ Setup
  \/ TrainEpoch
  \/ TrainEpochRaises
  \/ ValidateEpoch
  \/ ValidateRaises
  \/ SchedulerStep
  \/ SchedulerStepRaises
  \/ MaybeCheckpoint

Spec == Init /\ [][Next]_vars

\* main is sequential code: a step that can be taken is taken.
SpecFair == Init /\ [][Next]_vars /\ WF_vars(Next)

\* ============================================================ split sizes
\* Ratio triples in tenths: the first two are free, the third is what is left.
RatioTriples ==
  {<<a, b, IF a + b <= RatioDen THEN RatioDen - a - b ELSE 0>> :
     a \in 0..RatioDen, b \in 0..RatioDen}

InitSizes ==
  /\ d_pc = "Sizes"
  /\ d_n \in 0..MaxManifest
  /\ d_ratios \in RatioTriples
  /\ d_sizes = <<0, 0, 0>>
  /\ d_perm = << >> /\ d_subsets = << >>
  /\ d_passes = 0 /\ d_pass = [loader |-> "none", order |-> << >>, batches |-> << >>]
  /\ d_row = << >> /\ d_label = 0
  /\ DataNewIdle
  /\ TrainIdle /\ EvalIdle /\ AppIdle /\ MetricIdle

\* get_datasets, lines 65-71: the three sizes.
ComputeSizes ==
  /\ d_pc = "Sizes"
  /\ d_sizes' = SplitSizes(d_n, d_ratios)
  /\ d_pc' = "SizesDone"
  /\ UNCHANGED <<d_n, d_ratios, d_perm, d_subsets, d_passes, d_pass, d_row, d_label>>
  /\ UNCHANGED <<d_env, d_err, d_item, d_bs>>
  /\ UNCHANGED <<trainVars, evalVars, appVars, metricVars>>

NextSizes == ComputeSizes

SpecSizes == InitSizes /\ [][NextSizes]_vars

\* C3: the train and validation sizes are the truncated products ratio * N
\* (never above the exact floor of ratio * N and at most 1 below it), the test
\* size is what is left, and whenever r0 + r1 <= 1 the three sizes are
\* non-negative and sum to N; N = 100 with (0.8, 0.1, 0.1) gives (80, 10, 10).
C3_SizesSumToTotal ==
  d_pc = "SizesDone" =>
    LET exact0 == (d_ratios[1] * d_n) \div RatioDen
        exact1 == (d_ratios[2] * d_n) \div RatioDen
    IN /\ d_sizes[1] \in {exact0 - 1, exact0} /\ d_sizes[1] >= 0
       /\ d_sizes[2] \in {exact1 - 1, exact1} /\ d_sizes[2] >= 0
       /\ d_ratios[1] + d_ratios[2] <= RatioDen =>
            /\ d_sizes[3] >= 0
            /\ d_sizes[1] + d_sizes[2] + d_sizes[3] = d_n
       /\ (d_n = 100 /\ d_ratios = <<8, 1, 1>>) => d_sizes = <<80, 10, 10>>

C3_Witness ==
  d_pc = "SizesDone" /\ d_n = 100 /\ d_ratios = <<8, 1, 1>> /\ d_sizes = <<80, 10, 10>>

\* ======================================================= split and loaders
\* The orders in which a sequence of distinct items can be arranged.
RECURSIVE Perms(_)
Perms(S) ==
  IF S = {} THEN {<< >>}
  ELSE UNION {{<<x>> \o p : p \in Perms(S \ {x})} : x \in S}

\* The shortest manifest whose test split has two rows under the default
\* ratios (lines 65-67): six rows, int(0.8 * 6) = 4, int(0.1 * 6) = 0, two left.
TwoRowTestManifest ==
  CHOOSE n \in 0..MaxManifest :
    /\ TestSize(n, DefaultRatios) = 2
    /\ \A m \in 0..(n - 1) : TestSize(m, DefaultRatios) < 2

\* The manifest sizes the split and the loaders are exercised with.
SplitRows == (0..MaxRows) \cup {TwoRowTestManifest}

\* torch.randperm(n) (random_split line 73, RandomSampler): any permutation of
\* 0..n-1.
Draws(n) == Perms(0..(n - 1))

\* The ratio triples the split is exercised with, in tenths.
SplitRatios == {<<8, 1, 1>>, <<5, 3, 2>>, <<2, 4, 4>>, <<0, 5, 5>>, <<7, 3, 0>>}

\* indices[lo : hi] of a Python list, as a sequence.
Slice(s, lo, hi) == SubSeq(s, lo + 1, hi)

\* A split whose second subset starts one element early.
RandomSplitOverlapping(indices, lengths) ==
  << [indices |-> Slice(indices, 0, lengths[1])],
     [indices |-> Slice(indices, IF lengths[1] > 0 THEN lengths[1] - 1 ELSE 0,
                        lengths[1] + lengths[2])],
     [indices |-> Slice(indices, lengths[1] + lengths[2],
                        lengths[1] + lengths[2] + lengths[3])] >>

\* random_split(full_dataset, [train_size, val_size, test_size]): consecutive
\* slices of one random permutation `indices` of the rows, one Subset each.
RandomSplit(indices, lengths) ==
  << [indices |-> Slice(indices, 0, lengths[1])],
     [indices |-> Slice(indices, lengths[1], lengths[1] + lengths[2])],
     [indices |-> Slice(indices, lengths[1] + lengths[2],
                        lengths[1] + lengths[2] + lengths[3])] >>

\* TransformSubset.__init__
TransformSubset(subset, transform) == [subset |-> subset, transform |-> transform]
\* TransformSubset.__len__ -> Subset.__len__
DsLen(ds) == Len(ds.subset.indices)
\* TransformSubset.__getitem__(index) -> Subset.__getitem__(index): the manifest
\* row that position `index` (0-based) of the wrapped subset stands for.
DsRow(ds, index) == ds.subset.indices[index + 1]
\* The manifest rows a dataset holds.
DsRows(ds) == {DsRow(ds, i) : i \in 0..(DsLen(ds) - 1)}

Loaders == <<"train", "val", "test">>
\* DataLoader(..., shuffle=True) for train, shuffle=False for val and test.
LoaderShuffle(l) == l = 1

\* A sampler that shuffles whatever the flag says.
SamplerOrdersAlwaysShuffled(shuffle, n) == Draws(n)
\* The position orders one pass may take: RandomSampler draws any permutation,
\* SequentialSampler is range(len(dataset)).
SamplerOrders(shuffle, n) ==
  IF shuffle THEN Draws(n) ELSE {[i \in 1..n |-> i - 1]}

InitSplit ==
  /\ d_pc = "Start"
  /\ d_n \in SplitRows
  /\ d_ratios = DefaultRatios
  /\ d_sizes = <<0, 0, 0>>
  /\ d_perm = << >> /\ d_subsets = << >>
  /\ d_passes = 0 /\ d_pass = [loader |-> "none", order |-> << >>, batches |-> << >>]
  /\ d_row = << >> /\ d_label = 0
  /\ d_env \in [csv : BOOLEAN, img : BOOLEAN, image : {TRUE}]
  /\ d_bs \in 1..MaxBatch
  /\ d_err = "none" /\ d_item = NoItem
  /\ TrainIdle /\ EvalIdle /\ AppIdle /\ MetricIdle

\* get_datasets, lines 55-58: the two existence checks, in the order of the code.
ErrCsv == "FileNotFoundError: CSV not found"
ErrImages == "FileNotFoundError: Images directory not found"
\* DataLoader(train_ds, shuffle=True), line 84: RandomSampler refuses an empty
\* dataset.
ErrNumSamples == "ValueError: num_samples should be a positive integer value"
\* The checks in the other order.
MissingPathImagesFirst(env) ==
  IF ~env.img THEN ErrImages ELSE IF ~env.csv THEN ErrCsv ELSE "none"
MissingPath(env) ==
  IF ~env.csv THEN ErrCsv ELSE IF ~env.img THEN ErrImages ELSE "none"

RECURSIVE BatchesDropLast(_, _)
\* A batch sampler with drop_last=True.
BatchesDropLast(s, b) ==
  IF Len(s) < b THEN << >>
  ELSE <<SubSeq(s, 1, b)>> \o BatchesDropLast(SubSeq(s, b + 1, Len(s)), b)

RECURSIVE Batches(_, _)
\* DataLoader(ds, batch_size=b) with the default drop_last=False: consecutive
\* runs of b examples of the sampler's order, the rest in a last shorter one.
Batches(s, b) ==
  IF Len(s) = 0 THEN << >>
  ELSE IF Len(s) <= b THEN <<s>>
  ELSE <<SubSeq(s, 1, b)>> \o Batches(SubSeq(s, b + 1, Len(s)), b)

\* What get_datasets returns: the three subsets, each in its wrapper.
Wrapped(parts) ==
  <<TransformSubset(parts[1], "train"),
    TransformSubset(parts[2], "val"),
    TransformSubset(parts[3], "val")>>

\* get_datasets(data_dir, split_ratios), lines 50-79, called by itself: the
\* two checks, the manifest, the sizes, the split and the wrappers.
GetDatasets(ratios) ==
  /\ d_pc = "Start"
  /\ d_ratios' = ratios
  /\ IF MissingPath(d_env) # "none"
       THEN /\ d_err' = MissingPath(d_env)
            /\ d_pc' = "Raised"
            /\ UNCHANGED <<d_sizes, d_perm, d_subsets>>
       ELSE /\ d_sizes' = SplitSizes(d_n, ratios)
            /\ \E indices \in Draws(d_n) :
                 /\ d_perm' = indices
                 /\ d_subsets' = Wrapped(RandomSplit(indices, d_sizes'))
            /\ d_pc' = "Split"
            /\ d_err' = d_err
  /\ UNCHANGED <<d_n, d_passes, d_pass, d_row, d_label>>
  /\ UNCHANGED <<d_env, d_item, d_bs>>
  /\ UNCHANGED <<trainVars, evalVars, appVars, metricVars>>

\* get_dataloaders(data_dir, batch_size), lines 81-88: get_datasets with the
\* default ratios (line 82), then the three DataLoader constructions.  The
\* first, with shuffle=True, raises for an empty train split (line 84): the
\* split has been drawn by then, but no loader reaches the caller.
GetDataloaders ==
  /\ d_pc = "Start"
  /\ d_ratios' = DefaultRatios
  /\ IF MissingPath(d_env) # "none"
       THEN /\ d_err' = MissingPath(d_env)
            /\ d_pc' = "Raised"
            /\ UNCHANGED <<d_sizes, d_perm, d_subsets>>
       ELSE /\ d_sizes' = SplitSizes(d_n, DefaultRatios)
            /\ \E indices \in Draws(d_n) :
                 /\ d_perm' = indices
                 /\ IF TrainSize(d_n, DefaultRatios) = 0
                      THEN /\ d_subsets' = d_subsets
                           /\ d_err' = ErrNumSamples
                           /\ d_pc' = "Raised"
                      ELSE /\ d_subsets' = Wrapped(RandomSplit(indices, d_sizes'))
                           /\ d_err' = d_err
                           /\ d_pc' = "Built"
  /\ UNCHANGED <<d_n, d_passes, d_pass, d_row, d_label>>
  /\ UNCHANGED <<d_env, d_item, d_bs>>
  /\ UNCHANGED <<trainVars, evalVars, appVars, metricVars>>

\* One full iteration over one of the loaders (`for images, labels in loader`).
LoaderPass ==
  /\ d_pc = "Built"
  /\ d_passes < MaxPasses
  /\ \E l \in 1..3 :
       \E order \in SamplerOrders(LoaderShuffle(l), DsLen(d_subsets[l])) :
         LET rows == [i \in 1..Len(order) |-> DsRow(d_subsets[l], order[i])]
         IN d_pass' = [loader |-> Loaders[l],
                       order |-> rows,
                       batches |-> Batches(rows, d_bs)]
  /\ d_passes' = d_passes + 1
  /\ UNCHANGED <<d_pc, d_n, d_ratios, d_sizes, d_perm, d_subsets, d_row, d_label>>
  /\ UNCHANGED <<d_env, d_err, d_item, d_bs>>
  /\ UNCHANGED <<trainVars, evalVars, appVars, metricVars>>

NextSplit ==
  \/ \E ratios \in SplitRatios : GetDatasets(ratios)
  \/ GetDataloaders
  \/ LoaderPass

SpecSplit == InitSplit /\ [][NextSplit]_vars

\* C4: the three subsets one get_datasets call returns are pairwise disjoint
\* sets of manifest rows whose union is 0..N-1, every row in exactly one place
\* of exactly one subset, and each wrapped subset has the length computed for it.
C4_SplitIsPartition ==
  d_pc \in {"Split", "Built"} =>
    /\ \A a, b \in 1..3 : a # b => DsRows(d_subsets[a]) \cap DsRows(d_subsets[b]) = {}
    /\ DsRows(d_subsets[1]) \cup DsRows(d_subsets[2]) \cup DsRows(d_subsets[3])
         = 0..(d_n - 1)
    /\ \A a \in 1..3 :
         /\ DsLen(d_subsets[a]) = d_sizes[a]
         /\ Cardinality(DsRows(d_subsets[a])) = DsLen(d_subsets[a])

C4_Witness ==
  /\ d_pc = "Split" /\ d_n = 4 /\ d_ratios = <<5, 3, 2>> /\ d_sizes = <<2, 1, 1>>
  /\ DsRows(d_subsets[1]) = {1, 3} /\ DsRows(d_subsets[2]) = {0}
  /\ DsRows(d_subsets[3]) = {2}

IsAscending(s) == \A i, j \in 1..Len(s) : i < j => s[i] < s[j]

\* C6 as stated: every pass of the validation or test loader yields its
\* examples in ascending manifest row index.
C6_ValTestInManifestOrder ==
  d_pass.loader \in {"val", "test"} => IsAscending(d_pass.order)

\* C6 amended: every pass of the validation or test loader yields its examples
\* in the order of the subset's index list as random_split drew it, the same on
\* every pass; a pass of the train loader yields exactly the train examples,
\* each once, in an order drawn for that pass.
C6_ValTestInSubsetOrder ==
  /\ d_pass.loader = "val" => d_pass.order = d_subsets[2].subset.indices
  /\ d_pass.loader = "test" => d_pass.order = d_subsets[3].subset.indices
  /\ d_pass.loader = "train" =>
       /\ Len(d_pass.order) = DsLen(d_subsets[1])
       /\ {d_pass.order[i] : i \in 1..Len(d_pass.order)} = DsRows(d_subsets[1])

C6_Witness ==
  /\ d_pass.loader = "test" /\ d_passes = 2 /\ d_n = TwoRowTestManifest
  /\ d_pass.order = <<1, 0>> /\ d_subsets[3].subset.indices = <<1, 0>>

\* C11: get_datasets raises when train.csv or the images directory is absent,
\* the manifest check first (both absent: the CSV error), and it raises before
\* anything is computed from the manifest: no sizes, no permutation, no
\* subsets, so no loader ever makes a pass; subsets and loaders are returned
\* only when both exist.
C11_MissingPathsRaiseFirst ==
  /\ (~d_env.csv \/ ~d_env.img) =>
       /\ d_pc \in {"Start", "Raised"}
       /\ d_pc = "Raised" =>
            /\ d_err = (IF ~d_env.csv THEN ErrCsv ELSE ErrImages)
            /\ d_sizes = <<0, 0, 0>> /\ d_perm = << >> /\ d_subsets = << >>
            /\ d_passes = 0 /\ d_pass.loader = "none"
  /\ d_err \in {ErrCsv, ErrImages} => (d_pc = "Raised" /\ (~d_env.csv \/ ~d_env.img))
  /\ d_pc \in {"Split", "Built"} => (d_env.csv /\ d_env.img /\ d_err = "none")

C11_Witness ==
  /\ d_pc = "Raised" /\ ~d_env.csv /\ ~d_env.img /\ d_err = ErrCsv
  /\ d_n = 4 /\ d_subsets = << >>

\* The position of a loader in <<train, val, test>>.
LoaderIndex(name) == CHOOSE l \in 1..3 : Loaders[l] = name

RECURSIVE Concat(_)
Concat(ss) == IF Len(ss) = 0 THEN << >> ELSE ss[1] \o Concat(Tail(ss))

\* C15: a pass over a split of n examples with batch size B yields ceil(n/B)
\* batches, each of B examples except that the last has between 1 and B; the
\* batches, in order, are the examples of the pass, so every example of the
\* split is in exactly one batch and the batch sizes sum to len(loader.dataset).
C15_BatchesCoverSplit ==
  d_pass.loader # "none" =>
    LET ds == d_subsets[LoaderIndex(d_pass.loader)]
        n == DsLen(ds)
        bs == d_pass.batches
        k == Len(bs)
    IN /\ k = (n + d_bs - 1) \div d_bs
       /\ \A i \in 1..(k - 1) : Len(bs[i]) = d_bs
       /\ k > 0 => (Len(bs[k]) >= 1 /\ Len(bs[k]) <= d_bs)
       /\ Len(Concat(bs)) = n
       /\ \A r \in DsRows(ds) :
            Cardinality({<<i, j>> \in (1..k) \X (1..d_bs) :
                           j <= Len(bs[i]) /\ bs[i][j] = r}) = 1

C15_Witness ==
  /\ d_pass.loader = "train" /\ d_bs = 2 /\ DsLen(d_subsets[1]) = 3
  /\ Len(d_pass.batches) = 2 /\ Len(d_pass.batches[2]) = 1

\* ========================================================== label encoder
\* label_vec = row[self.classes].values.astype('float32'): an integer up to 2^24
\* is kept; between 2^24 and 2^25 only even integers exist and an odd one
\* rounds to the neighbour whose significand is even.
AsFloat32(v) ==
  IF v <= F32Exact THEN v
  ELSE IF v % 2 = 0 THEN v
  ELSE IF ((v - 1) \div 2) % 2 = 0 THEN v - 1 ELSE v + 1

\* An argmax that returns the last position of the maximum.
ArgMaxLast(vec) ==
  CHOOSE i \in 0..(Len(vec) - 1) :
    /\ \A j \in 0..(Len(vec) - 1) : vec[j + 1] <= vec[i + 1]
    /\ \A j \in (i + 1)..(Len(vec) - 1) : vec[j + 1] < vec[i + 1]

\* label_vec.argmax(): the first position (0-based) of the maximum.
ArgMax(vec) ==
  CHOOSE i \in 0..(Len(vec) - 1) :
    /\ \A j \in 0..(Len(vec) - 1) : vec[j + 1] <= vec[i + 1]
    /\ \A j \in 0..(i - 1) : vec[j + 1] < vec[i + 1]

\* PlantDataset.__getitem__, lines 27-34: the label of a row.
LabelOf(row) == ArgMax([i \in 1..Len(row) |-> AsFloat32(row[i])])

\* Values a class column may hold: the one-hot 0 and 1, and three integers at
\* the edge of what float32 tells apart.
ColumnValues == {0, 1, F32Exact, F32Exact + 1, F32Exact + 2}

\* What __getitem__ gives when it raises: no image and no label.
Raised(err) == [status |-> err, image |-> "none", label |-> -1]

\* A __getitem__ that stands a blank image in for a file it cannot open.
PlantGetItemPlaceholder(row, exists, transform) ==
  [status |-> "ok",
   image |-> IF ~exists THEN "blank" ELSE IF transform # "none" THEN "tensor" ELSE "pil",
   label |-> LabelOf(row)]

\* PlantDataset.__getitem__, lines 18-34: Image.open raises for an absent
\* file before the label is computed; nothing catches it.
PlantGetItem(row, exists, transform) ==
  IF ~exists THEN Raised("FileNotFoundError")
  ELSE [status |-> "ok",
        image |-> IF transform # "none" THEN "tensor" ELSE "pil",
        label |-> LabelOf(row)]

\* TransformSubset.__getitem__, lines 41-45: `x, y = self.subset[index]` lets
\* an exception of the wrapped dataset through, otherwise transforms x.
TransformSubsetGetItem(inner, transform) ==
  IF inner.status # "ok" THEN inner
  ELSE IF transform # "none" THEN [inner EXCEPT !.image = "tensor"] ELSE inner

InitLabel ==
  /\ d_pc = "Row"
  /\ d_row \in [1..NumClasses -> ColumnValues]
  /\ d_label = 0
  /\ d_n = 0 /\ d_ratios = <<0, 0, 0>> /\ d_sizes = <<0, 0, 0>>
  /\ d_perm = << >> /\ d_subsets = << >>
  /\ d_passes = 0 /\ d_pass = [loader |-> "none", order |-> << >>, batches |-> << >>]
  /\ d_env \in [csv : {TRUE}, img : {TRUE}, image : BOOLEAN]
  /\ d_err = "none" /\ d_item = NoItem /\ d_bs = 1
  /\ TrainIdle /\ EvalIdle /\ AppIdle /\ MetricIdle

\* One fetch through a split: TransformSubset.__getitem__ over the
\* PlantDataset built with transform=None (get_datasets, line 63).
GetItem ==
  /\ d_pc = "Row"
  /\ d_item' = TransformSubsetGetItem(PlantGetItem(d_row, d_env.image, "none"), "val")
  /\ IF d_item'.status = "ok"
       THEN d_label' = d_item'.label /\ d_pc' = "Got"
       ELSE d_label' = d_label /\ d_pc' = "Raised"
  /\ UNCHANGED <<d_n, d_ratios, d_sizes, d_perm, d_subsets, d_passes, d_pass, d_row>>
  /\ UNCHANGED <<d_env, d_err, d_bs>>
  /\ UNCHANGED <<trainVars, evalVars, appVars, metricVars>>

NextLabel == GetItem

SpecLabel == InitLabel /\ [][NextLabel]_vars

IsOneHot(row) ==
  \E i \in 1..Len(row) : row[i] = 1 /\ \A j \in 1..Len(row) : j # i => row[j] = 0

\* C5 as stated: the label is the lowest index of a maximal value among the
\* row's class columns.
C5_LabelIsFirstMaxOfColumns ==
  d_pc = "Got" =>
    /\ \A j \in 1..NumClasses : d_row[j] <= d_row[d_label + 1]
    /\ \A j \in 1..d_label : d_row[j] < d_row[d_label + 1]

\* C5 amended: the label is the lowest index of a maximal value among the
\* row's class columns as converted to float32 (columns that differ by less
\* than float32 resolves count as equal); for a one-hot row it is the index of
\* the single 1 column, and it always lies in [0, 4).
C5_LabelIsFirstMaxOfFloat32Columns ==
  d_pc = "Got" =>
    /\ d_label \in 0..(NumClasses - 1)
    /\ \A j \in 1..NumClasses : AsFloat32(d_row[j]) <= AsFloat32(d_row[d_label + 1])
    /\ \A j \in 1..d_label : AsFloat32(d_row[j]) < AsFloat32(d_row[d_label + 1])
    /\ IsOneHot(d_row) => d_row[d_label + 1] = 1

C5_Witness ==
  d_pc = "Got" /\ d_row = <<F32Exact, F32Exact + 1, 0, 1>> /\ d_label = 0

\* C12: for an index whose image file is absent __getitem__ raises: the caller
\* of TransformSubset.__getitem__ gets the same error, no image (no
\* placeholder) and no label; when the file exists it gets the transformed
\* image together with the label.
C12_MissingImageRaises ==
  d_pc # "Row" =>
    /\ ~d_env.image =>
         (d_pc = "Raised" /\ d_item = Raised("FileNotFoundError"))
    /\ d_env.image =>
         (d_pc = "Got" /\ d_item.status = "ok" /\ d_item.image = "tensor"
          /\ d_item.label = d_label)

C12_Witness ==
  /\ d_pc = "Raised" /\ ~d_env.image /\ d_row = <<0, 0, 1, 0>>
  /\ d_item.status = "FileNotFoundError" /\ d_item.image = "none"

\* ================================================================ evaluate
\* What evaluate prints and writes, by the line that does it.
MsgDevice == "Using device"
MsgLoading == "Loading model"
MsgLoaded == "Loaded weights from checkpoint"
MsgNotFound == "Checkpoint not found. Testing with random weights."
MsgEvaluating == "Evaluating..."
MsgReport == "Classification Report"
MsgMatrix == "Confusion matrix saved"

Has(s, m) == \E i \in 1..Len(s) : s[i] = m

\* The tensor values of a model as constructed (pretrained=False, lines
\* 33-37), unlike any that a training run saved.
FreshParams == <<-1, 0>>

\* --num_classes, default (train.py line 78, evaluate.py line 77).
DefaultClasses == 38
\* The values of --num_classes evaluate is run with: the default, and the
\* number of class columns of the manifest.
EvalClasses == {DefaultClasses, NumClasses}

\* The parameter tensors of a model in state_dict order, one name for the
\* body and one for the classification head: vit_base_patch16_224 and
\* swin_base_patch4_window7_224 name them differently.
ParamNames(a) == IF a = "vit" THEN <<"blocks", "head">> ELSE <<"layers", "head.fc">>
\* The shape of a tensor as far as it depends on the arguments: the first
\* dimension of the head is num_classes.
ParamShape(name, classes) == IF name \in {"head", "head.fc"} THEN <<classes>> ELSE << >>

\* model.state_dict() of a model of architecture a with `classes` classes
\* whose tensors hold the values v: name, shape and values of each tensor.
StateDict(a, classes, v) ==
  [i \in 1..Len(ParamNames(a)) |->
     [name |-> ParamNames(a)[i],
      shape |-> ParamShape(ParamNames(a)[i], classes),
      value |-> v]]

Names(sd) == {sd[i].name : i \in 1..Len(sd)}
TensorOf(sd, name) == sd[CHOOSE i \in 1..Len(sd) : sd[i].name = name]

\* load_state_dict, the copy: every tensor of the model whose name is in the
\* state_dict with the same shape takes the values stored under that name;
\* the others stay as they are.
CopyThatFits(own, sd) ==
  [i \in 1..Len(own) |->
     IF /\ own[i].name \in Names(sd)
        /\ TensorOf(sd, own[i].name).shape = own[i].shape
       THEN [own[i] EXCEPT !.value = TensorOf(sd, own[i].name).value]
       ELSE own[i]]

\* A load_state_dict that takes the tensors that fit and reports nothing
\* about the others.
LoadStateDictLenient(own, sd) ==
  [raised |-> FALSE, params |-> CopyThatFits(own, sd)]

\* model.load_state_dict(state_dict), strict by default: the tensors that fit
\* are copied, and then it raises if a name was missing or unexpected or a
\* shape differed, with the model left partly loaded.
LoadStateDict(own, sd) ==
  [raised |-> ~(/\ Names(sd) = Names(own)
                /\ \A i \in 1..Len(own) :
                     TensorOf(sd, own[i].name).shape = own[i].shape),
   params |-> CopyThatFits(own, sd)]

\* torch.save(model.state_dict(), save_path), train.py line 131 (and
\* create_dummy_models.py): what a file holds that was saved from a model of
\* architecture a, built with the default class count, at tensor values f.
SavedFile(a, f) == StateDict(a, DefaultClasses, f)

\* The manifest sizes evaluate is run on: one row (no train row) and two.
EvalRows == {1, 2}

\* The inputs of one run of evaluate, over a manifest of one of the sizes ns.
EvalInputsOver(ns) ==
  {r \in [rows : ns,              \* rows of {data_dir}/train.csv
          csv : BOOLEAN,          \* {data_dir}/train.csv exists
          img : BOOLEAN,          \* {data_dir}/images exists
          images_ok : BOOLEAN,    \* every test image can be opened
          model_ok : BOOLEAN,     \* the model factory returned a model
          arch : Archs,           \* --model
          classes : EvalClasses,  \* --num_classes
          path : {"own"},         \* --checkpoint: a file of evaluate's own
          ckpt : {NoFile} \cup {<<a>> : a \in Archs},
                                  \* --checkpoint: absent, or saved for a
          content : {NoFile, <<0, 0>>}] :
                                  \* the parameters the file holds
     (r.ckpt = NoFile) <=> (r.content = NoFile)}

EvalInputs == EvalInputsOver(EvalRows)

\* What the file at args.checkpoint holds at this moment (lines 41-42): a file
\* of evaluate's own is as the inputs describe it; best_model_{a}.pth under
\* the checkpoint directory of a training run is what the runs saved there.
CheckpointFile ==
  IF e_in.path = "own"
    THEN IF e_in.ckpt = NoFile THEN NoFile ELSE SavedFile(e_in.ckpt[1], e_in.content)
    ELSE IF ckpt[e_in.path] = NoFile THEN NoFile
         ELSE SavedFile(e_in.path, ckpt[e_in.path])

InitEval ==
  /\ e_pc = "Start"
  /\ e_in \in EvalInputs
  /\ e_weights = "none"
  /\ e_out = << >>
  /\ e_params = NoFile /\ e_perm = << >> /\ e_subsets = << >>
  /\ TrainIdle /\ DataIdle /\ AppIdle /\ MetricIdle

\* An evaluate that splits along the permutation of the training process.
EvalIndicesCarried(own, trained) == IF trained = << >> THEN own ELSE trained

\* evaluate, line 29: get_dataloaders(args.data_dir, ...) takes nothing from a
\* training run; random_split (dataset.py line 73) cuts the permutation drawn
\* in this process.
EvalIndices(own, trained) == own

\* evaluate, lines 25-29: get_dataloaders raises when train.csv or images/ is
\* missing (dataset.py lines 55-58); otherwise it splits the manifest by the
\* default ratios along a permutation drawn here, and raises when the train
\* split is empty (dataset.py line 84).
EvalLoadData ==
  /\ e_pc = "Start"
  /\ e_out' = Append(e_out, MsgDevice)
  /\ IF e_in.csv /\ e_in.img
       THEN \E indices \in Draws(e_in.rows) :
              /\ e_perm' = indices
              /\ IF TrainSize(e_in.rows, DefaultRatios) = 0
                   THEN /\ e_pc' = "Aborted"
                        /\ e_subsets' = e_subsets
                   ELSE /\ e_pc' = "Model"
                        /\ e_subsets' =
                             Wrapped(RandomSplit(EvalIndices(indices, d_perm),
                                                 SplitSizes(e_in.rows, DefaultRatios)))
       ELSE /\ e_pc' = "Aborted"
            /\ UNCHANGED <<e_perm, e_subsets>>
  /\ UNCHANGED <<e_in, e_weights>>
  /\ UNCHANGED <<e_params, trainVars, dataVars, appVars, metricVars>>

\* evaluate, lines 31-38: a factory that returned None fails at model.to(device).
EvalBuildModel ==
  /\ e_pc = "Model"
  /\ e_out' = Append(e_out, MsgLoading)
  /\ IF e_in.model_ok
       THEN /\ e_weights' = "random" /\ e_pc' = "Load"
            /\ e_params' = StateDict(e_in.arch, e_in.classes, FreshParams)
       ELSE /\ e_weights' = e_weights /\ e_params' = e_params /\ e_pc' = "Aborted"
  /\ UNCHANGED e_in
  /\ UNCHANGED <<e_perm, e_subsets, trainVars, dataVars, appVars, metricVars>>

\* A loader of the checkpoint that treats a missing file as an error.
LoadCheckpointStrict ==
  /\ e_pc = "Load"
  /\ IF CheckpointFile = NoFile
       THEN /\ e_out' = Append(e_out, MsgNotFound)
            /\ e_pc' = "Aborted"
            /\ UNCHANGED <<e_weights, e_params>>
       ELSE IF ~LoadStateDict(e_params, CheckpointFile).raised
              THEN /\ e_weights' = "loaded"
                   /\ e_params' = LoadStateDict(e_params, CheckpointFile).params
                   /\ e_out' = Append(e_out, MsgLoaded)
                   /\ e_pc' = "Infer"
              ELSE /\ e_pc' = "Aborted"
                   /\ e_params' = LoadStateDict(e_params, CheckpointFile).params
                   /\ UNCHANGED <<e_weights, e_out>>
  /\ UNCHANGED e_in
  /\ UNCHANGED <<e_perm, e_subsets, trainVars, dataVars, appVars, metricVars>>

\* A loader of the checkpoint that says nothing about a missing file.
LoadCheckpointSilent ==
  /\ e_pc = "Load"
  /\ IF CheckpointFile = NoFile
       THEN /\ e_pc' = "Infer"
            /\ UNCHANGED <<e_weights, e_out, e_params>>
       ELSE IF ~LoadStateDict(e_params, CheckpointFile).raised
              THEN /\ e_weights' = "loaded"
                   /\ e_params' = LoadStateDict(e_params, CheckpointFile).params
                   /\ e_out' = Append(e_out, MsgLoaded)
                   /\ e_pc' = "Infer"
              ELSE /\ e_pc' = "Aborted"
                   /\ e_params' = LoadStateDict(e_params, CheckpointFile).params
                   /\ UNCHANGED <<e_weights, e_out>>
  /\ UNCHANGED e_in
  /\ UNCHANGED <<e_perm, e_subsets, trainVars, dataVars, appVars, metricVars>>

\* evaluate, lines 40-46: load the checkpoint if the file exists, as it is
\* at that moment (load_state_dict raises on the parameter layout of another
\* architecture or class count, after copying the tensors that fit, and the
\* exception leaves evaluate), otherwise say so and keep the model as
\* constructed.
LoadCheckpoint ==
  /\ e_pc = "Load"
  /\ IF CheckpointFile # NoFile
       THEN IF ~LoadStateDict(e_params, CheckpointFile).raised
              THEN /\ e_weights' = "loaded"
                   /\ e_params' = LoadStateDict(e_params, CheckpointFile).params
                   /\ e_out' = Append(e_out, MsgLoaded)
                   /\ e_pc' = "Infer"
              ELSE /\ e_pc' = "Aborted"
                   /\ e_params' = LoadStateDict(e_params, CheckpointFile).params
                   /\ UNCHANGED <<e_weights, e_out>>
       ELSE /\ e_out' = Append(e_out, MsgNotFound)
            /\ e_pc' = "Infer"
            /\ UNCHANGED <<e_weights, e_params>>
  /\ UNCHANGED e_in
  /\ UNCHANGED <<e_perm, e_subsets, trainVars, dataVars, appVars, metricVars>>

\* evaluate, lines 48-61: the inference pass over the test loader; an image
\* that cannot be opened raises out of the loop (dataset.py line 25).
EvalInference ==
  /\ e_pc = "Infer"
  /\ e_out' = Append(e_out, MsgEvaluating)
  /\ e_pc' = IF e_in.images_ok THEN "Report" ELSE "Aborted"
  /\ UNCHANGED <<e_in, e_weights>>
  /\ UNCHANGED <<e_params, e_perm, e_subsets, trainVars, dataVars, appVars, metricVars>>

\* evaluate, lines 63-69: the classification report and the confusion matrix.
EvalReport ==
  /\ e_pc = "Report"
  /\ e_out' = e_out \o <<MsgReport, MsgMatrix>>
  /\ e_pc' = "Done"
  /\ UNCHANGED <<e_in, e_weights>>
  /\ UNCHANGED <<e_params, e_perm, e_subsets, trainVars, dataVars, appVars, metricVars>>

NextEval ==
  \/ EvalLoadData
  \/ EvalBuildModel
  \/ LoadCheckpoint
  \/ EvalInference
  \/ EvalReport

SpecEval == InitEval /\ [][NextEval]_vars

\* C9: when the checkpoint file does not exist, evaluate does not fail on that
\* account (an abort then always has another cause: missing data, no train
\* row, no model, an unreadable image): it reports the missing checkpoint, keeps the model as
\* constructed, runs the inference pass and produces the classification report
\* and the confusion matrix.
C9_MissingCheckpointStillEvaluates ==
  e_in.ckpt = NoFile =>
    /\ e_pc = "Aborted" =>
         (\/ ~e_in.csv \/ ~e_in.img \/ ~e_in.model_ok \/ ~e_in.images_ok
          \/ TrainSize(e_in.rows, DefaultRatios) = 0)
    /\ e_pc \in {"Infer", "Report", "Done"} =>
         (e_weights = "random" /\ Has(e_out, MsgNotFound) /\ ~Has(e_out, MsgLoaded))
    /\ e_pc = "Done" =>
         (Has(e_out, MsgEvaluating) /\ Has(e_out, MsgReport) /\ Has(e_out, MsgMatrix))

C9_Witness ==
  /\ e_in.ckpt = NoFile /\ e_pc = "Done" /\ e_weights = "random"
  /\ e_out = <<MsgDevice, MsgLoading, MsgNotFound, MsgEvaluating, MsgReport, MsgMatrix>>

\* C10 as stated: for a checkpoint path that does not exist evaluate makes no
\* inference pass and produces no report.
C10_MissingCheckpointAborts ==
  e_in.ckpt = NoFile =>
    (~Has(e_out, MsgEvaluating) /\ ~Has(e_out, MsgReport) /\ ~Has(e_out, MsgMatrix))

\* C10 amended: a checkpoint path that does not exist is reported immediately,
\* before any inference, but the operation is not aborted: the step that finds
\* the file missing prints the message, leaves the model as constructed and
\* goes on to the inference pass.
C10_MissingCheckpointReportedNotAborted ==
  [][(e_pc = "Load" /\ e_in.ckpt = NoFile) =>
       /\ e_pc' = "Infer"
       /\ e_out' = Append(e_out, MsgNotFound)
       /\ ~Has(e_out, MsgEvaluating)
       /\ e_weights' = e_weights]_vars

C10_Witness ==
  /\ e_in.ckpt = NoFile /\ e_pc = "Infer"
  /\ e_out[Len(e_out)] = MsgNotFound /\ e_weights = "random"

\* ===================================================================== app
\* What a file under checkpoints/ can hold: a state_dict saved for one of the
\* architectures, or bytes torch.load cannot read.
FileKinds == Archs \cup {"corrupt"}

\* A load_model that hands back the model as constructed when the load fails.
LoadModelKeepsUnloaded(name, files) ==
  IF files[name] = <<name>>
    THEN [model |-> "model", err |-> FALSE, raised |-> FALSE]
    ELSE [model |-> "model", err |-> TRUE, raised |-> FALSE]

\* load_model, lines 671-684: create the architecture, load_state_dict the
\* file of that name; any exception (no file, unreadable file, state_dict of
\* another layout) is caught, reported with st.error, and None is returned.
LoadModel(name, files) ==
  IF files[name] = <<name>>
    THEN [model |-> "model", err |-> FALSE, raised |-> FALSE]
    ELSE [model |-> "none", err |-> TRUE, raised |-> FALSE]

\* What one run of the page shows, given what load_model returned.
Shown(r) ==
  (IF r.err THEN <<"error">> ELSE << >>)
    \o (IF r.model = "model" /\ ~r.raised THEN <<"success">> ELSE << >>)

\* A cache that keeps loaded models only, not a None.
CacheHitModelsOnly(cache, name) == cache[name].state = "model"

\* @st.cache_resource, line 669: a call with an argument seen before gets the
\* stored return value, whatever it was.
CacheHit(cache, name) == cache[name].state # "unset"

InitApp ==
  /\ a_files \in [Archs -> {NoFile} \cup {<<k>> : k \in FileKinds}]
  /\ a_cache = [a \in Archs |-> NotCached]
  /\ a_reads = [a \in Archs |-> 0]
  /\ a_out = NoRun
  /\ a_clicks = 0

\* detection_page, lines 510-521, with an image uploaded and the Analyze
\* button pressed where it is enabled: os.path.exists (line 516) finds no
\* checkpoint and the run shows the warning and a disabled button, or it finds
\* one and the run goes on to load_model (line 522).
AppAnalyze(choice) ==
  /\ a_out.run # "loading"
  /\ a_clicks < MaxClicks
  /\ a_clicks' = a_clicks + 1
  /\ a_out' = IF a_files[choice] = NoFile
                THEN [choice |-> choice, shown |-> <<"warning">>, run |-> "completed"]
                ELSE [choice |-> choice, shown |-> << >>, run |-> "loading"]
  /\ UNCHANGED <<a_files, a_cache, a_reads>>
  /\ UNCHANGED <<trainVars, dataVars, evalVars, metricVars>>

\* detection_page, lines 522-530: load_model is called through
\* st.cache_resource (line 669), which runs it once per argument and hands the
\* stored return value, None included, to later calls; run, it reads the file
\* as it is now (line 676), which may have changed since line 516; `if model:`
\* guards the prediction.  Whether the stored st.error is shown again on a
\* cache hit is left open.
AppLoadModel ==
  /\ a_out.run = "loading"
  /\ LET choice == a_out.choice IN
       IF ~CacheHit(a_cache, choice)
         THEN LET r == LoadModel(choice, a_files) IN
              /\ a_cache' = [a_cache EXCEPT ![choice] =
                               [state |-> r.model, from |-> a_files[choice]]]
              /\ a_reads' = [a_reads EXCEPT ![choice] = @ + 1]
              /\ a_out' = [choice |-> choice, shown |-> Shown(r),
                           run |-> IF r.raised THEN "exception" ELSE "completed"]
         ELSE /\ \E replay \in BOOLEAN :
                   a_out' = [choice |-> choice,
                             shown |-> Shown([model |-> a_cache[choice].state,
                                              err |-> replay /\ a_cache[choice].state = "none",
                                              raised |-> FALSE]),
                             run |-> "completed"]
              /\ UNCHANGED <<a_cache, a_reads>>
  /\ UNCHANGED <<a_files, a_clicks>>
  /\ UNCHANGED <<trainVars, dataVars, evalVars, metricVars>>

NextApp ==
  \/ \E choice \in Archs : AppAnalyze(choice)
  \/ AppLoadModel

\* Outside the page: a training run, create_dummy_models.py or anything else
\* writes, replaces or removes a file under checkpoints/, also between the two
\* looks a run of the page takes at the file.
AppFileChanged(a, f) ==
  /\ f # a_files[a]
  /\ a_files' = [a_files EXCEPT ![a] = f]
  /\ UNCHANGED <<a_cache, a_reads, a_out, a_clicks>>
  /\ UNCHANGED <<trainVars, dataVars, evalVars, metricVars>>

InitServe ==
  /\ InitApp
  /\ TrainIdle /\ DataIdle /\ EvalIdle /\ MetricIdle

NextServe ==
  \/ NextApp
  \/ \E a \in Archs, f \in {NoFile} \cup {<<k>> : k \in FileKinds} : AppFileChanged(a, f)

\* One serving process and the files under checkpoints/ changing beside it.
SpecServe == InitServe /\ [][NextServe]_vars

\* C24: within one serving process load_model reads the file of an
\* architecture name at most once; what the first call returned (a model, or
\* None after a failed load) stays in the cache unchanged and is what every
\* later call gets: whether a run that calls load_model shows a class depends
\* on the cache entry alone, which still records the file as it was at the
\* first call, whatever the file on disk is now.
C24_LoadedAtMostOnce ==
  /\ [](\A a \in Archs :
          /\ a_reads[a] = (IF a_cache[a].state = "unset" THEN 0 ELSE 1)
          /\ a_cache[a].state # "unset" =>
               (a_cache[a].state = "model" <=> a_cache[a].from = <<a>>))
  /\ []((a_out.run = "completed" /\ a_out.shown # <<"warning">>) =>
          (Has(a_out.shown, "success") <=> a_cache[a_out.choice].state = "model"))
  /\ [][\A a \in Archs :
          a_cache[a].state # "unset" =>
            (a_cache'[a] = a_cache[a] /\ a_reads'[a] = a_reads[a])]_vars

\* The vit file was a swin state_dict at the first call and has since been
\* repaired; the second call still gets None and shows no class.
C24_Witness ==
  /\ a_cache["vit"] = [state |-> "none", from |-> <<"swin">>]
  /\ a_files["vit"] = <<"vit">>
  /\ a_out.choice = "vit" /\ ~Has(a_out.shown, "success") /\ a_out.shown # <<"warning">>
  /\ a_out.run = "completed" /\ a_clicks = 2 /\ a_reads["vit"] = 1

\* evaluate and the page, each over its own checkpoint files.
InitInference ==
  /\ e_pc = "Start"
  /\ e_in \in EvalInputs
  /\ e_weights = "none" /\ e_out = << >> /\ e_params = NoFile
  /\ e_perm = << >> /\ e_subsets = << >>
  /\ InitApp
  /\ TrainIdle /\ DataIdle /\ MetricIdle

NextInference == NextEval \/ NextApp

SpecInference == InitInference /\ [][NextInference]_vars

\* C13: no prediction comes from a model whose checkpoint load failed.  In
\* evaluate an existing checkpoint of another architecture's layout stops the
\* run before the inference pass: nothing is loaded, "Evaluating..." is never
\* printed and there is no report.  In the page, load_model returns a model
\* exactly when the file it read was a state_dict of the chosen architecture
\* and None otherwise; a run shows a predicted class only for a choice whose
\* load succeeded, and every run completes (no exception leaves load_model).
C13_NoPredictionFromFailedLoad ==
  /\ (e_in.ckpt # NoFile /\ e_in.ckpt # <<e_in.arch>>) =>
       /\ e_pc \notin {"Infer", "Report", "Done"}
       /\ e_weights # "loaded"
       /\ ~Has(e_out, MsgEvaluating) /\ ~Has(e_out, MsgReport)
  /\ \A a \in Archs :
       a_cache[a].state # "unset" =>
         (a_cache[a].state = "model" <=> a_cache[a].from = <<a>>)
  /\ a_out # NoRun =>
       /\ a_out.run \in {"loading", "completed"}
       /\ Has(a_out.shown, "success") =>
            (a_cache[a_out.choice].state = "model"
             /\ a_cache[a_out.choice].from = <<a_out.choice>>)
       /\ (a_files[a_out.choice] # NoFile /\ a_files[a_out.choice] # <<a_out.choice>>) =>
            ~Has(a_out.shown, "success")

\* evaluate stopped at the load of a swin checkpoint into vit; the page failed
\* to load vit (a swin state_dict under its name), showed the error and no
\* class, and then served a second run.
C13_Witness ==
  /\ e_in.arch = "vit" /\ e_in.ckpt = <<"swin">> /\ e_pc = "Aborted"
  /\ e_out = <<MsgDevice, MsgLoading>>
  /\ a_files["vit"] = <<"swin">> /\ a_cache["vit"].state = "none"
  /\ a_reads["vit"] = 1 /\ a_clicks = 2 /\ a_out.run = "completed"
  /\ a_out.choice = "vit" /\ ~Has(a_out.shown, "success")

\* ================================================================= metrics
\* Exact fractions <<numerator, denominator>> in lowest terms stand for the
\* floats of sklearn.
RECURSIVE Gcd(_, _)
Gcd(a, b) == IF b = 0 THEN a ELSE Gcd(b, a % b)

Rat(n, d) == IF n = 0 THEN <<0, 1>> ELSE <<n \div Gcd(n, d), d \div Gcd(n, d)>>
RatAdd(x, y) == Rat(x[1] * y[2] + y[1] * x[2], x[2] * y[2])
RatDivInt(x, k) == Rat(x[1], x[2] * k)

\* zero_division=0: a ratio whose denominator is 0 is scored 0.
Ratio0(n, d) == IF d = 0 THEN <<0, 1>> ELSE Rat(n, d)

Classes == 0..(NumClasses - 1)

\* Logit rows of a batch: a clear winner per class, and two ties.
LogitRows == {<<1, 0, 0, 0>>, <<0, 1, 0, 0>>, <<0, 0, 1, 0>>, <<0, 0, 0, 1>>,
              <<2, 2, 0, 0>>, <<0, 0, 3, 3>>}

\* line 11: torch.argmax(y_pred, dim=1), the first maximum of each row.
Preds(logits) == [i \in 1..Len(logits) |-> ArgMax(logits[i])]

\* Counts of one class in the confusion matrix of targets t and predictions p.
Tp(c, t, p) == Cardinality({i \in 1..Len(t) : t[i] = c /\ p[i] = c})
Fp(c, t, p) == Cardinality({i \in 1..Len(t) : t[i] # c /\ p[i] = c})
Fn(c, t, p) == Cardinality({i \in 1..Len(t) : t[i] = c /\ p[i] # c})

PrecisionOf(c, t, p) == Ratio0(Tp(c, t, p), Tp(c, t, p) + Fp(c, t, p))
RecallOf(c, t, p) == Ratio0(Tp(c, t, p), Tp(c, t, p) + Fn(c, t, p))
F1Of(c, t, p) == Ratio0(2 * Tp(c, t, p), 2 * Tp(c, t, p) + Fp(c, t, p) + Fn(c, t, p))

\* Averaging over the whole class list.
AllLabels(t, p) == Classes

\* Averaging over the classes of the targets only.
TargetLabels(t, p) == {t[i] : i \in 1..Len(t)}

\* line 15: labels=None, so the classes averaged over are those that occur
\* in the targets or in the predictions.
MacroLabels(t, p) == {t[i] : i \in 1..Len(t)} \cup {p[i] : i \in 1..Len(p)}

\* The sum of val[c] over the classes c <= k that are in L.
RECURSIVE SumTo(_, _, _)
SumTo(val, L, k) ==
  IF k < 0 THEN <<0, 1>>
  ELSE RatAdd(IF k \in L THEN val[k] ELSE <<0, 1>>, SumTo(val, L, k - 1))

\* average='macro': the unweighted mean over the classes of L.
MacroAvg(val, L) == RatDivInt(SumTo(val, L, NumClasses - 1), Cardinality(L))

\* calculate_metrics, lines 4-21.
CalculateMetrics(t, logits) ==
  LET p == Preds(logits)
      L == MacroLabels(t, p)
  IN [accuracy |-> Rat(Cardinality({i \in 1..Len(t) : t[i] = p[i]}), Len(t)),
      precision |-> MacroAvg([c \in Classes |-> PrecisionOf(c, t, p)], L),
      recall |-> MacroAvg([c \in Classes |-> RecallOf(c, t, p)], L),
      f1 |-> MacroAvg([c \in Classes |-> F1Of(c, t, p)], L)]

InitMetrics ==
  /\ m_pc = "Batch"
  /\ \E n \in 1..MaxBatchRows :
       /\ m_true \in [1..n -> Classes]
       /\ m_pred \in [1..n -> LogitRows]
  /\ m_out = << >>
  /\ TrainIdle /\ DataIdle /\ EvalIdle /\ AppIdle

Compute ==
  /\ m_pc = "Batch"
  /\ m_out' = CalculateMetrics(m_true, m_pred)
  /\ m_pc' = "Done"
  /\ UNCHANGED <<m_true, m_pred>>
  /\ UNCHANGED <<trainVars, dataVars, evalVars, appVars>>

NextMetrics == Compute

SpecMetrics == InitMetrics /\ [][NextMetrics]_vars

\* The rows of the batch whose first-maximum logit is the target.
Hits == {i \in 1..Len(m_true) : ArgMax(m_pred[i]) = m_true[i]}

\* C16: for a non-empty batch the accuracy returned lies in [0, 1] and is the
\* fraction of rows whose argmax equals the target; when every row is
\* predicted right the accuracy is 1 and the macro F1 is 1, whether or not
\* every class of the class list occurs in the batch.
C16_AccuracyIsHitFraction ==
  m_pc = "Done" =>
    /\ 0 <= m_out.accuracy[1] /\ m_out.accuracy[1] <= m_out.accuracy[2]
    /\ m_out.accuracy[1] * Len(m_true) = Cardinality(Hits) * m_out.accuracy[2]
    /\ Cardinality(Hits) = Len(m_true) =>
         (m_out.accuracy = <<1, 1>> /\ m_out.f1 = <<1, 1>>)

\* A batch predicted right in which classes 0 and 2 do not occur.
C16_Witness ==
  /\ m_pc = "Done" /\ m_true = <<1, 3>>
  /\ m_pred = <<<<0, 1, 0, 0>>, <<0, 0, 0, 1>>>>
  /\ m_out.accuracy = <<1, 1>> /\ m_out.f1 = <<1, 1>>

\* The mean of a per-class score over the classes of L, a class without a
\* score (0/0) counting 0.
MeanOver(num(_), den(_), L) ==
  LET val == [c \in Classes |-> IF den(c) = 0 THEN <<0, 1>> ELSE Rat(num(c), den(c))]
  IN RatDivInt(SumTo(val, L, NumClasses - 1), Cardinality(L))

\* The classes that occur in the batch, as a target or as a prediction.
Occurring ==
  {c \in Classes : \E i \in 1..Len(m_true) : m_true[i] = c \/ ArgMax(m_pred[i]) = c}

\* C17 as stated: precision, recall and F1 are the means over all classes of
\* the class list, a class with no predicted and no true instance counting 0.
C17_MacroOverAllClasses ==
  m_pc = "Done" =>
    LET p == Preds(m_pred)
        tp(c) == Tp(c, m_true, p)
        pd(c) == Tp(c, m_true, p) + Fp(c, m_true, p)
        rd(c) == Tp(c, m_true, p) + Fn(c, m_true, p)
        tp2(c) == 2 * Tp(c, m_true, p)
        fd(c) == pd(c) + rd(c)
    IN /\ m_out.precision = MeanOver(tp, pd, Classes)
       /\ m_out.recall = MeanOver(tp, rd, Classes)
       /\ m_out.f1 = MeanOver(tp2, fd, Classes)

\* C17 amended: precision, recall and F1 are the means over the classes that
\* occur in the batch as a target or as a prediction; a class that occurs in
\* neither is left out of the mean (it does not count 0); a class that is
\* predicted but never a target has recall 0, one that is a target but never
\* predicted has precision 0, and no result is undefined: each is a fraction
\* in [0, 1].
C17_MacroOverOccurringClasses ==
  m_pc = "Done" =>
    LET p == Preds(m_pred)
        tp(c) == Tp(c, m_true, p)
        pd(c) == Tp(c, m_true, p) + Fp(c, m_true, p)
        rd(c) == Tp(c, m_true, p) + Fn(c, m_true, p)
        tp2(c) == 2 * Tp(c, m_true, p)
        fd(c) == pd(c) + rd(c)
    IN /\ m_out.precision = MeanOver(tp, pd, Occurring)
       /\ m_out.recall = MeanOver(tp, rd, Occurring)
       /\ m_out.f1 = MeanOver(tp2, fd, Occurring)
       /\ \A x \in {m_out.precision, m_out.recall, m_out.f1} :
            0 <= x[1] /\ x[1] <= x[2] /\ x[2] > 0

\* Targets 0 and 1, predictions 0 and 2: class 3 occurs nowhere and the means
\* are over three classes, of which only class 0 scores.
C17_Witness ==
  /\ m_pc = "Done" /\ m_true = <<0, 1>>
  /\ m_pred = <<<<1, 0, 0, 0>>, <<0, 0, 1, 0>>>>
  /\ m_out.precision = <<1, 3>> /\ m_out.recall = <<1, 3>> /\ m_out.f1 = <<1, 3>>

\* ---------------------------------------------------------- train: claims
RECURSIVE MaxUpTo(_, _)
\* max(0, s[1], ..., s[k])
MaxUpTo(s, k) ==
  IF k = 0 THEN 0
  ELSE LET m == MaxUpTo(s, k - 1) IN IF s[k] > m THEN s[k] ELSE m

RECURSIVE StrictImprovements(_, _)
\* The epochs i <= k, ascending, whose accuracy s[i] exceeds max(0, s[1..i-1]).
StrictImprovements(s, k) ==
  IF k = 0 THEN << >>
  ELSE IF s[k] > MaxUpTo(s, k - 1)
         THEN Append(StrictImprovements(s, k - 1), k)
         ELSE StrictImprovements(s, k - 1)

Stopped == pc \in {"Done", "Aborted", "Exit"}

\* C1: a checkpoint is written at the end of an epoch exactly when that
\* epoch's validation accuracy is strictly greater than every earlier one of
\* the run and than the initial 0.0; the file then holds the parameters of the
\* last such epoch. For accuracies [0.5, 0.7, 0.6, 0.9] the writes are those of
\* epochs 1, 2 and 4 and the file ends with epoch 4's parameters.
C1_CheckpointIffStrictImprovement ==
  /\ writes = StrictImprovements(accs, epoch)
  /\ (writes # << >>) =>
       (ckpt[arch] = <<1, ParamsAfter(writes[Len(writes)], n_rows)>>)
  /\ (pc = "Done" /\ accs = <<5, 7, 6, 9>>) =>
       (writes = <<1, 2, 4>> /\ ckpt[arch] = <<1, ParamsAfter(4, n_rows)>>)

\* A hundred rows: ten validation rows, three train batches an epoch.
C1_Witness ==
  /\ pc = "Done" /\ accs = <<5, 7, 6, 9>> /\ n_rows = 100
  /\ writes = <<1, 2, 4>> /\ ckpt[arch] = <<1, 12>>

\* C2: the phases of a run come in the order Init, then per epoch TrainEpoch,
\* ValidateEpoch, MaybeCheckpoint; epoch k+1 starts only after MaybeCheckpoint
\* of epoch k; a run that does not fail reaches Done, and has then made exactly
\* `epochs` iterations.
C2_Order ==
  /\ pc = "Init" => (n_train = 0 /\ n_val = 0 /\ epoch = 0)
  /\ pc = "TrainEpoch" => (n_train = epoch /\ n_val = epoch /\ epoch < epochs)
  /\ pc = "ValidateEpoch" => (n_train = epoch + 1 /\ n_val = epoch)
  /\ pc \in {"SchedulerStep", "MaybeCheckpoint"} =>
       (n_train = epoch + 1 /\ n_val = epoch + 1)
  /\ pc = "Done" => (n_train = epochs /\ n_val = epochs /\ epoch = epochs)

\* C2: in every state the phase counters are in the order above, and every
\* run stops: at Done after exactly `epochs` iterations unless it failed.
C2_PhaseOrderAndTermination == [](C2_Order) /\ <>Stopped

C2_Witness == pc = "Done" /\ epochs = 3 /\ n_train = 3 /\ n_val = 3 /\ epoch = 3

\* C7: with --dry_run the loop runs one epoch whatever --epochs is, 0
\* included: never more than one train pass, one validation pass and one
\* checkpoint write, and once the validation of the run has returned the
\* epoch is run to its end (the schedule step, the checkpoint decision, Done).
C7_DryRunSingleEpoch ==
  dry_run =>
    /\ n_train <= 1 /\ n_val <= 1 /\ Len(writes) <= 1
    /\ pc \in {"TrainEpoch", "ValidateEpoch", "SchedulerStep",
               "MaybeCheckpoint", "Done"} => epochs = 1
    /\ n_val = 1 => pc \in {"SchedulerStep", "MaybeCheckpoint", "Done"}

\* C8: the learning-rate schedule is stepped once per epoch, after the epoch's
\* validation and before its checkpoint decision, whether or not the epoch
\* writes; after k completed epochs it has been stepped k times.
C8_SchedulerStepsOncePerEpoch ==
  /\ pc \in {"Init", "TrainEpoch", "ValidateEpoch", "SchedulerStep", "Done"} =>
       n_sched = epoch
  /\ pc = "SchedulerStep" => n_val = epoch + 1
  /\ pc = "MaybeCheckpoint" => n_sched = epoch + 1

C8_Witness ==
  pc = "Done" /\ epoch = 3 /\ n_sched = 3 /\ writes = <<2>>

\* C14: when the model factory returns no model (main gets as far as the
\* factory unless building the loaders has raised), main reports the failure
\* and returns before the loop: no TrainEpoch and no ValidateEpoch phase runs, the
\* scheduler never steps, the optimizer and the scheduler are never created,
\* and no checkpoint file is written (the files under checkpoints/ are those
\* of earlier runs).
C14_NoModelNoLoop ==
  ~model_ok =>
    /\ pc \in {"Init", "Exit", "Aborted"}
    /\ pc = "Aborted" <=> (pc # "Init" /\ TrainLen(n_rows) = 0)
    /\ n_train = 0 /\ n_val = 0 /\ n_sched = 0
    /\ ~optim
    /\ writes = << >>
    /\ \A a \in Archs : ckpt[a] \in {NoFile, <<0, 0>>}

C14_Witness ==
  /\ ~model_ok /\ pc = "Exit" /\ ~dry_run /\ arg_epochs = 2
  /\ ckpt[arch] = NoFile /\ ~optim

\* The earliest of the first k epochs whose accuracy is the maximum of them.
EarliestMax(s, k) ==
  CHOOSE i \in 1..k :
    /\ s[i] = MaxUpTo(s, k)
    /\ \A j \in 1..(i - 1) : s[j] < s[i]

\* What holds of the tracker and of the file in every state of a run.
C20_TrackerAndFile ==
  pc \notin {"Init", "Exit"} =>
    /\ best_acc = MaxUpTo(accs, epoch)
    /\ best_acc >= 0
    /\ writes # << >> =>
         (/\ best_acc > 0
          /\ ckpt[SavePath(arch)] =
               <<1, ParamsAfter(EarliestMax(accs, epoch), n_rows)>>)

\* C20: after every completed epoch the tracker is max(0, the validation
\* accuracies of the epochs so far); it never decreases; and once the run has
\* written a checkpoint, the file holds the parameters as they were at the
\* end of the earliest epoch that attained that maximum (the parameters after
\* k epochs are those after k train passes), a later tie not replacing it.
C20_BestIsRunningMax ==
  [](C20_TrackerAndFile) /\ [][best_acc' >= best_acc]_vars

\* Accuracies 0.7, 0.9, 0.9: the tracker is 0.9 and the file is epoch 2's.
C20_Witness ==
  /\ accs = <<7, 9, 9>> /\ epoch = 3 /\ best_acc = 9 /\ n_rows = 100
  /\ writes = <<1, 2>> /\ ckpt[SavePath(arch)] = <<1, 6>> /\ params = 9

\* C21: the validation pass (returning or raising) leaves the parameters, the
\* optimizer (its step count and its existence), the learning-rate schedule,
\* the best-accuracy tracker and the checkpoint files as they were; the
\* parameters change only in TrainEpoch, by the optimizer steps taken there:
\* one per train batch when the pass returns, those of the batches before the
\* exception when it raises; and a save in MaybeCheckpoint writes the
\* parameters that the validation accuracy of that epoch was measured on.
C21_ValidationChangesNothing ==
  [][/\ pc = "ValidateEpoch" =>
          UNCHANGED <<params, steps, optim, n_sched, best_acc, ckpt, writes>>
     /\ (params' # params \/ steps' # steps) =>
          (/\ pc = "TrainEpoch"
           /\ params' - params = steps' - steps
           /\ steps' - steps \in 1..TrainBatches(n_rows))
     /\ (pc = "TrainEpoch" /\ pc' = "ValidateEpoch") =>
          (/\ TrainBatches(n_rows) >= 1
           /\ steps' = steps + TrainBatches(n_rows))
     /\ writes' # writes =>
          (/\ pc = "MaybeCheckpoint"
           /\ val_params = params
           /\ val_acc = accs[Len(accs)]
           /\ ckpt'[SavePath(arch)] = <<1, val_params>>)]_vars

\* Fifty rows, two train batches: after the first epoch, two optimizer steps,
\* and the file holds the parameters validate measured.
C21_Witness ==
  /\ n_rows = 50 /\ epoch = 1 /\ n_val = 1 /\ steps = 2 /\ params = 2
  /\ val_params = 2 /\ writes = <<1>> /\ ckpt[SavePath(arch)] = <<1, 2>>

\* What holds of a run that an exception has ended: the epochs completed
\* are the `epoch` before the failing one, and the writes and the file are
\* those of these epochs.  The failing epoch got as far as the train pass, the
\* validation, or (a schedule with T_max = 0) the schedule step.
C22_AbortedState ==
  pc = "Aborted" =>
    /\ Len(accs) = n_val /\ n_val \in {epoch, epoch + 1}
    /\ n_val = epoch => (n_sched = epoch /\ n_train \in {epoch, epoch + 1})
    /\ n_val = epoch + 1 =>
         (n_sched = epoch + 1 /\ n_train = epoch + 1 /\ arg_epochs = 0)
    /\ writes = StrictImprovements(accs, epoch)
    /\ \A i \in 1..Len(writes) : writes[i] <= epoch
    /\ IF writes = << >>
         THEN ckpt[SavePath(arch)] \in {NoFile, <<0, 0>>}
         ELSE ckpt[SavePath(arch)] =
                <<1, ParamsAfter(writes[Len(writes)], n_rows)>>

\* With the default ratios a manifest of fewer than ten rows has an empty
\* validation split, and one of ten rows has not.
C22_SmallManifests ==
  /\ \A n \in 1..9 : ValLen(n) = 0
  /\ ValLen(10) = 1

\* C22: an exception inside TrainEpoch or ValidateEpoch of epoch k ends the
\* run: the step that raises writes nothing and leaves the checkpoint file, the
\* tracker and the epoch counter as they were after epoch k-1 (a train pass
\* that raises keeps the optimizer steps it took); from the aborted state no
\* step is taken (no retry, no later phase, no Done).  The validation of a
\* run whose validation split is empty (fewer than ten rows under the default
\* ratios) can only raise, so such a run never completes a validation and
\* never writes.
C22_ExceptionAbortsRun ==
  /\ [](C22_AbortedState /\ C22_SmallManifests)
  /\ [](ValLen(n_rows) = 0 =>
          (n_val = 0 /\ writes = << >> /\ (pc = "Done" => epochs <= 0)))
  /\ [][/\ pc' = "Aborted" =>
             (/\ pc \in {"Init", "TrainEpoch", "ValidateEpoch", "SchedulerStep"}
              /\ UNCHANGED <<ckpt, writes, best_acc, epoch, accs, n_train, n_val>>)
        /\ (pc = "ValidateEpoch" /\ pc' = "Aborted") => UNCHANGED <<params, steps>>
        /\ pc = "Aborted" => FALSE
        /\ (pc = "ValidateEpoch" /\ ValLen(n_rows) = 0) => pc' = "Aborted"]_vars

\* Fifty rows: the train pass of the second epoch raised in its second batch;
\* the file is the one the first epoch wrote.
C22_Witness ==
  /\ pc = "Aborted" /\ n_rows = 50 /\ epoch = 1 /\ n_train = 1 /\ n_val = 1
  /\ writes = <<1>> /\ ckpt[SavePath(arch)] = <<1, 2>> /\ params = 3

\* C23: a training run for architecture A changes no checkpoint file but
\* best_model_A.pth, and that one only in MaybeCheckpoint, where the file's
\* former content is replaced by the current parameters (one file, rewritten
\* in place: after two saves it holds the second only); no file of another
\* name appears, no file is deleted, and the other architecture's file is
\* never created, modified or deleted.
C23_OnlyOwnCheckpointFile ==
  [][/\ DOMAIN ckpt' = Archs
     /\ \A a \in Archs :
          /\ ckpt[a] # NoFile => ckpt'[a] # NoFile
          /\ ckpt'[a] # ckpt[a] =>
               (/\ a = arch /\ pc = "MaybeCheckpoint"
                /\ Improves(val_acc, best_acc)
                /\ ckpt'[a] = <<1, params>>)]_vars

\* A swin run that saved twice, beside a vit file of an earlier run.
C23_Witness ==
  /\ arch = "swin" /\ writes = <<1, 2>> /\ n_rows = 50 /\ ckpt["swin"] = <<1, 4>>
  /\ ckpt["vit"] = <<0, 0>> /\ pc = "Done"

\* =================================================================== rerun
\* The best accuracies, in tenths, the earlier run is taken to have reached.
PrevBests == {2, 9}

\* A run that finds the file of an earlier run of the same architecture in
\* the same directory; the earlier run's best accuracy is kept for reference.
InitRerun ==
  /\ RunInputs
  /\ prev_best \in IF ckpt[SavePath(arch)] = NoFile THEN {0} ELSE PrevBests

SpecRerun == InitRerun /\ [][Next]_vars

\* The first of the first k epochs whose accuracy is above 0 (0: none).
FirstPositive(s, k) ==
  IF \E i \in 1..k : s[i] > 0
    THEN CHOOSE i \in 1..k : s[i] > 0 /\ \A j \in 1..(i - 1) : s[j] = 0
    ELSE 0

\* C26: whatever file the run finds and whatever the earlier run's best
\* accuracy was, the tracker starts at 0.0 and is the running maximum of this
\* run's accuracies alone; the first epoch of the run whose validation
\* accuracy is above 0 writes the file, replacing the earlier run's
\* parameters, also when the earlier best was higher; as long as every
\* accuracy of the run is 0.0 (up to and including Done) nothing is written
\* and the file found at the start is still there.
C26_TrackerRestartsAtZero ==
  /\ [](pc \notin {"Init", "Exit"} =>
          /\ best_acc = MaxUpTo(accs, epoch)
          /\ epoch = 0 => best_acc = 0
          /\ IF FirstPositive(accs, epoch) > 0
               THEN /\ writes # << >>
                    /\ writes[1] = FirstPositive(accs, epoch)
                    /\ ckpt[SavePath(arch)][1] = 1
               ELSE /\ writes = << >>
                    /\ prev_best > 0 => ckpt[SavePath(arch)] = <<0, 0>>
                    /\ prev_best = 0 => ckpt[SavePath(arch)] = NoFile)
  /\ [][(pc = "MaybeCheckpoint" /\ val_acc > 0 /\ writes = << >>) =>
          (ckpt'[SavePath(arch)] = <<1, params>> /\ writes' = <<epoch + 1>>)]_vars

\* The earlier run reached 0.9; this run's first epoch reaches 0.5 and
\* replaces the file.
C26_Witness ==
  /\ prev_best = 9 /\ accs = <<5>> /\ epoch = 1 /\ best_acc = 5 /\ n_rows = 100
  /\ writes = <<1>> /\ ckpt[SavePath(arch)] = <<1, 3>>

\* ============================================================== round trip
\* evaluate.py is a script of its own: it can be started before, during or
\* after a training run, ended however that run has.  Here it is started once,
\* with --checkpoint the file the run saves to (train.py line 130), --model m,
\* --num_classes k and a --data_dir whose manifest has n rows; the data can
\* be read and the model factory is fine.
StartEvaluate(m, k, n) ==
  /\ e_pc = "Idle"
  /\ e_in' = [rows |-> n,
              csv |-> TRUE, img |-> TRUE, images_ok |-> TRUE, model_ok |-> TRUE,
              arch |-> m, classes |-> k, path |-> SavePath(arch),
              ckpt |-> NoFile, content |-> NoFile]
  /\ e_pc' = "Start"
  /\ UNCHANGED <<e_weights, e_out, e_params, e_perm, e_subsets>>
  /\ UNCHANGED <<trainVars, dataVars, appVars, metricVars>>

\* evaluate, lines 41-42, while line 131 of the training run is writing the
\* same file: torch.save has opened the file, which creates or empties it,
\* and has not finished; os.path.exists finds the file and torch.load raises
\* on the incomplete archive.
LoadCheckpointTorn ==
  /\ e_pc = "Load" /\ e_in.path = SavePath(arch)
  /\ pc = "MaybeCheckpoint" /\ Improves(val_acc, best_acc)
  /\ e_pc' = "Aborted"
  /\ UNCHANGED <<e_in, e_weights, e_out, e_params, e_perm, e_subsets>>
  /\ UNCHANGED <<trainVars, dataVars, appVars, metricVars>>

NextRoundTrip ==
  \/ Next
  \/ \E m \in Archs, k \in EvalClasses, n \in EvalRows : StartEvaluate(m, k, n)
  \/ NextEval
  \/ LoadCheckpointTorn

\* The training runs of the round trip: manifests of up to fifty rows, up to
\* two epochs asked for.
InitRoundTrip == Init /\ n_rows <= 50 /\ arg_epochs <= 2

SpecRoundTrip == InitRoundTrip /\ [][NextRoundTrip]_vars

\* The state_dict the run saved at the end of epoch w (1-based): its
\* architecture, the parameters after w train passes.
SavedAt(w) == SavedFile(SavePath(arch), <<1, ParamsAfter(w, n_rows)>>)
\* The state_dict of an earlier run's file.
SavedEarlier == SavedFile(SavePath(arch), <<0, 0>>)

\* C19: a checkpoint loads only into a model of the architecture and the
\* class count it was saved from (any other raises), and the model then holds,
\* tensor by tensor, the names, shapes and values that were saved: at the
\* load, exactly the state_dict the file holds at that moment, which is the
\* one of the run's latest save so far (the parameters after that epoch's
\* train passes) or, before the first save, an earlier run's; afterwards
\* still a state_dict that was saved, whatever the run has saved or trained
\* since, and no tensor as constructed.  In eval mode the outputs are a
\* function of the parameters and the input, so equal parameters give equal
\* outputs.
C19_RoundTrip ==
  /\ [](e_weights = "loaded" =>
          /\ e_in.arch = e_in.path /\ e_in.classes = DefaultClasses
          /\ e_params \in {SavedAt(writes[i]) : i \in 1..Len(writes)} \cup {SavedEarlier}
          /\ \A i \in 1..Len(e_params) : e_params[i].value # FreshParams)
  /\ [][(e_weights # "loaded" /\ e_weights' = "loaded") =>
          /\ ckpt[e_in.path] # NoFile
          /\ e_params' = SavedFile(e_in.path, ckpt[e_in.path])
          /\ e_params' = (IF writes # << >> THEN SavedAt(writes[Len(writes)])
                          ELSE SavedEarlier)]_vars

\* evaluate, run beside the training, loaded into a vit model what the
\* first epoch saved; the second epoch has saved since.
C19_Witness ==
  /\ e_pc = "Done" /\ e_weights = "loaded" /\ e_in.arch = arch
  /\ pc = "Done" /\ writes = <<1, 2>> /\ n_rows = 50 /\ params = 4
  /\ ckpt[SavePath(arch)] = <<1, 4>> /\ e_params = SavedAt(1)
  /\ e_params[2] = [name |-> "head", shape |-> <<DefaultClasses>>, value |-> <<1, 2>>]

\* ============================================================== two splits
\* A training process and an evaluation process over the same data
\* directory, each calling get_dataloaders with the default ratios.
InitTwoSplits ==
  /\ d_pc = "Start"
  /\ d_n \in 1..MaxRows
  /\ d_ratios = DefaultRatios
  /\ d_sizes = <<0, 0, 0>>
  /\ d_perm = << >> /\ d_subsets = << >>
  /\ d_passes = 0 /\ d_pass = [loader |-> "none", order |-> << >>, batches |-> << >>]
  /\ d_row = << >> /\ d_label = 0
  /\ DataNewIdle
  /\ e_pc = "Start"
  /\ e_in \in {r \in EvalInputsOver({d_n}) :
                 r.csv /\ r.img /\ r.images_ok /\ r.model_ok /\ r.ckpt = <<r.arch>>}
  /\ e_weights = "none" /\ e_out = << >> /\ e_params = NoFile
  /\ e_perm = << >> /\ e_subsets = << >>
  /\ TrainIdle /\ AppIdle /\ MetricIdle

NextTwoSplits == GetDataloaders \/ EvalLoadData

SpecTwoSplits == InitTwoSplits /\ [][NextTwoSplits]_vars

\* C25: the datasets evaluate runs over are the consecutive slices, by the
\* default ratios, of the permutation drawn in the evaluation process; the
\* step that draws them reads nothing of the training process's split and
\* leaves it alone.  Nothing ties the two draws together, so a row of
\* evaluate's test split can be a row of the training run's train split.
C25_EvalSplitIsOwnDraw ==
  /\ [](e_pc = "Model" =>
          /\ e_in.rows = d_n
          /\ e_perm \in Perms(0..(d_n - 1))
          /\ \A l \in 1..3 :
               e_subsets[l].subset =
                 RandomSplit(e_perm, SplitSizes(d_n, DefaultRatios))[l]
          /\ DsLen(e_subsets[3]) = TestSize(d_n, DefaultRatios))
  /\ [][e_subsets' # e_subsets => UNCHANGED <<d_perm, d_subsets>>]_vars

\* Four rows: the one test row of evaluate is one of the three rows the
\* training run trained on.
C25_Witness ==
  /\ d_n = 4 /\ d_pc = "Built" /\ e_pc = "Model"
  /\ DsRows(e_subsets[3]) # {}
  /\ DsRows(e_subsets[3]) \subseteq DsRows(d_subsets[1])

====
